---- MODULE Spec2Model ----
(***************************************************************************)
(* Model of NodejsWorkerBundler                                            *)
(* (src/lib/nodejsWorkerBundling/NodejsWorkerBundler.ts).                  *)
(*                                                                         *)
(* Strings are sequences of one-character strings, so that startsWith,     *)
(* basename, replace and RegExp matching are computed character by         *)
(* character.  Paths that the code only handles lexically (path.resolve,   *)
(* path.dirname) are sequences of segments, the root "/" being << >>.      *)
(***************************************************************************)
EXTENDS Integers, Sequences, FiniteSets, TLC

\* ------------------------------------------------------------------ bounds
MaxLitLen == 3
MaxCandLen == 3
MaxHookCalls == 3
MaxBuildHookCalls == 1
MaxBundleCalls == 2
MaxNameLen == 3
MaxWorkflowRefs == 2
MaxClassifierCalls == 3
MaxPathDepth == 4

\* ----------------------------------------------------------------- strings
Lower == {"a","b","c","d","e","f","g","h","i","j","k","l","m",
          "n","o","p","q","r","s","t","u","v","w","x","y","z"}
Upper == {"A","B","C","D","E","F","G","H","I","J","K","L","M",
          "N","O","P","Q","R","S","T","U","V","W","X","Y","Z"}
Digit == {"0","1","2","3","4","5","6","7","8","9"}

\* All strings over alphabet A of length at most n.
StringsUpTo(A, n) == UNION {[1..k -> A] : k \in 0..n}

\* String.prototype.startsWith
StartsWith(s, prefix) ==
    /\ Len(s) >= Len(prefix)
    /\ SubSeq(s, 1, Len(prefix)) = prefix

\* Index of the first occurrence of the string pat in s, 0 when there is none.
IndexOf(s, pat) ==
    LET hits == {i \in 1..(Len(s) - Len(pat) + 1) : SubSeq(s, i, i + Len(pat) - 1) = pat}
    IN IF hits = {} THEN 0 ELSE CHOOSE i \in hits : \A j \in hits : i <= j

\* String.prototype.replace(pattern, replacement) with a STRING pattern:
\* only the first literal occurrence of pat is replaced; "$&" in the
\* replacement stands for the matched text, so '\\$&' yields "\" \o pat.
ReplaceStringEscaping(s, pat) ==
    LET i == IndexOf(s, pat)
    IN IF i = 0 THEN s
       ELSE SubSeq(s, 1, i - 1) \o <<"\\">> \o pat \o SubSeq(s, i + Len(pat), Len(s))

\* ------------------------------------------------------------------ RegExp
(* A compiled RegExp is [ok, elems, anchoredStart, anchoredEnd]; elems is a *)
(* sequence of [any, set, q, lazy]: one atom ("." when any, else a class   *)
(* of characters) and its quantifier q ("1", "*", "+", "?").  ok = FALSE   *)
(* is the SyntaxError the RegExp constructor throws.  The pattern sources  *)
(* parsed here are over letters, digits, "-", "/", "@", ".", "*", "+", "?" *)
(* between a leading "^" and a trailing "$".                               *)
Quantifier == {"*", "+", "?"}

Atom(c) == [any |-> (c = "."), set |-> IF c = "." THEN {} ELSE {c}, q |-> "1", lazy |-> FALSE]

RECURSIVE ParseElems(_, _, _)
ParseElems(body, i, acc) ==
    IF i > Len(body) THEN [ok |-> TRUE, elems |-> acc]
    ELSE LET c == body[i]
             n == Len(acc)
         IN IF c \in Quantifier
            THEN IF n = 0 THEN [ok |-> FALSE, elems |-> << >>]       \* Nothing to repeat
                 ELSE IF acc[n].q = "1"
                      THEN ParseElems(body, i + 1, [acc EXCEPT ![n].q = c])
                 ELSE IF c = "?" /\ ~acc[n].lazy
                      THEN ParseElems(body, i + 1, [acc EXCEPT ![n].lazy = TRUE])
                 ELSE [ok |-> FALSE, elems |-> << >>]                \* Nothing to repeat
            ELSE ParseElems(body, i + 1, Append(acc, Atom(c)))

\* new RegExp(source), for a source of the form ^...$
NewRegExp(source) ==
    LET body == SubSeq(source, 2, Len(source) - 1)
        p == ParseElems(body, 1, << >>)
    IN [ok |-> p.ok, elems |-> p.elems, anchoredStart |-> TRUE, anchoredEnd |-> TRUE,
        global |-> FALSE, lastIndex |-> 0]

RECURSIVE MatchFrom(_, _, _, _, _)
MatchFrom(elems, i, s, j, toEnd) ==
    IF i > Len(elems) THEN (IF toEnd THEN j = Len(s) + 1 ELSE TRUE)
    ELSE LET e == elems[i]
             here == j <= Len(s) /\ (e.any \/ s[j] \in e.set)
         IN CASE e.q = "1" -> here /\ MatchFrom(elems, i + 1, s, j + 1, toEnd)
              [] e.q = "?" -> \/ MatchFrom(elems, i + 1, s, j, toEnd)
                              \/ here /\ MatchFrom(elems, i + 1, s, j + 1, toEnd)
              [] e.q = "*" -> \/ MatchFrom(elems, i + 1, s, j, toEnd)
                              \/ here /\ MatchFrom(elems, i, s, j + 1, toEnd)
              [] e.q = "+" -> here /\ (\/ MatchFrom(elems, i + 1, s, j + 1, toEnd)
                                       \/ MatchFrom(elems, i, s, j + 1, toEnd))

\* Whether the pattern occurs in s: RegExp.prototype.test for a pattern
\* without the g or y flag
Test(re, s) ==
    /\ re.ok
    /\ \E start \in 1..(Len(s) + 1) :
         /\ re.anchoredStart => start = 1
         /\ MatchFrom(re.elems, 1, s, start, re.anchoredEnd)

\* The position after the match the backtracking matcher finds from
\* position j (greedy quantifiers take the longer alternative first, lazy
\* ones the shorter), or 0 when there is none
RECURSIVE MatchEnd(_, _, _, _, _)
MatchEnd(elems, i, s, j, toEnd) ==
    IF i > Len(elems) THEN (IF toEnd /\ j # Len(s) + 1 THEN 0 ELSE j)
    ELSE LET e == elems[i]
             here == j <= Len(s) /\ (e.any \/ s[j] \in e.set)
             skip == MatchEnd(elems, i + 1, s, j, toEnd)
             once == IF here THEN MatchEnd(elems, i + 1, s, j + 1, toEnd) ELSE 0
             more == IF here THEN MatchEnd(elems, i, s, j + 1, toEnd) ELSE 0
             First(a, b) == IF a # 0 THEN a ELSE b
         IN CASE e.q = "1" -> once
              [] e.q = "?" -> IF e.lazy THEN First(skip, once) ELSE First(once, skip)
              [] e.q = "*" -> IF e.lazy THEN First(skip, more) ELSE First(more, skip)
              [] e.q = "+" -> IF e.lazy THEN First(once, more) ELSE First(more, once)

\* RegExp.prototype.test: a pattern with the g flag searches from its
\* lastIndex and leaves the end of the match there, or 0 after a failure
RegExpTest(re, s) ==
    IF ~re.global THEN [matched |-> Test(re, s), re |-> re]
    ELSE LET starts == {st \in (re.lastIndex + 1)..(Len(s) + 1) :
                          /\ re.ok
                          /\ re.anchoredStart => st = 1
                          /\ MatchEnd(re.elems, 1, s, st, re.anchoredEnd) # 0}
         IN IF starts = {}
            THEN [matched |-> FALSE, re |-> [re EXCEPT !.lastIndex = 0]]
            ELSE LET st == CHOOSE a \in starts : \A b \in starts : a <= b
                 IN [matched |-> TRUE,
                     re |-> [re EXCEPT !.lastIndex = MatchEnd(re.elems, 1, s, st, re.anchoredEnd) - 1]]

\* The string searched for by toRegExp's replace: [.?*+|\([{^$]
EscapeSearch == <<"[", ".", "?", "*", "+", "|", "\\", "(", "[", "{", "^", "$", "]">>

\* toRegExp; an input is [type |-> "RegExp", value |-> a compiled RegExp] or
\* [type |-> "string", value |-> a string]
toRegExp(input) ==
    IF input.type = "RegExp" THEN input.value
    ELSE NewRegExp(<<"^">> \o ReplaceStringEscaping(input.value, EscapeSearch) \o <<"$">>)

\* An element matching exactly the character c
LitElem(c) == [any |-> FALSE, set |-> {c}, q |-> "1", lazy |-> FALSE]

Lit(str) == [i \in 1..Len(str) |-> LitElem(str[i])]

Anchored(elems) ==
    [ok |-> TRUE, elems |-> elems, anchoredStart |-> TRUE, anchoredEnd |-> TRUE,
     global |-> FALSE, lastIndex |-> 0]

\* /^.[/](?:[a-z0-9-]+)[.]workflowbundle[.]js$/
WorkflowBundlePattern ==
    Anchored(<<[any |-> TRUE, set |-> {}, q |-> "1", lazy |-> FALSE]>>
             \o Lit(<<"/">>)
             \o <<[any |-> FALSE, set |-> Lower \cup Digit \cup {"-"}, q |-> "+", lazy |-> FALSE]>>
             \o Lit(<<".","w","o","r","k","f","l","o","w","b","u","n","d","l","e",".","j","s">>))

\* /^@temporalio[/]core-bridge$/
CoreBridgePattern ==
    Anchored(Lit(<<"@","t","e","m","p","o","r","a","l","i","o","/","c","o","r","e","-","b","r","i","d","g","e">>))

\* /^@temporalio[/]proto$/
ProtoPattern ==
    Anchored(Lit(<<"@","t","e","m","p","o","r","a","l","i","o","/","p","r","o","t","o">>))

\* /^@temporalio[/]common$/
CommonPattern ==
    Anchored(Lit(<<"@","t","e","m","p","o","r","a","l","i","o","/","c","o","m","m","o","n">>))

\* The externalDepsPatterns array built by the constructor
BuildExternalDepsPatterns(externals) ==
    <<WorkflowBundlePattern, CoreBridgePattern, ProtoPattern, CommonPattern>>
    \o [i \in 1..Len(externals) |-> toRegExp(externals[i])]

\* Whether the candidate matches at least one rule
MatchesAny(patterns, candidate) ==
    \E i \in 1..Len(patterns) : Test(patterns[i], candidate)

\* this.externalDepsPatterns.some((pattern) => pattern.test(candidate)):
\* the patterns are tested in order up to the first that matches
RECURSIVE Some(_, _, _)
Some(patterns, candidate, i) ==
    IF i > Len(patterns) THEN [matched |-> FALSE, patterns |-> patterns]
    ELSE LET t == RegExpTest(patterns[i], candidate)
             tested == [patterns EXCEPT ![i] = t.re]
         IN IF t.matched THEN [matched |-> TRUE, patterns |-> tested]
            ELSE Some(tested, candidate, i + 1)

\* ------------------------------------------------------------------- paths
\* The segments of a path string: the non-empty pieces between "/"
RECURSIVE SplitPath(_, _, _)
SplitPath(s, i, cur) ==
    IF i > Len(s) THEN (IF cur = << >> THEN << >> ELSE <<cur>>)
    ELSE IF s[i] = "/"
         THEN (IF cur = << >> THEN << >> ELSE <<cur>>) \o SplitPath(s, i + 1, << >>)
         ELSE SplitPath(s, i + 1, Append(cur, s[i]))

Segments(s) == SplitPath(s, 1, << >>)

\* path.dirname of an absolute path given as its sequence of segments
Dirname(p) == IF p = << >> THEN << >> ELSE SubSeq(p, 1, Len(p) - 1)

\* path.basename of a path string: its last segment, trailing "/" ignored
Basename(s) ==
    LET segs == Segments(s)
    IN IF segs = << >> THEN << >> ELSE segs[Len(segs)]

\* path.resolve(dir, rel) for an absolute dir and a path string rel that does
\* not start with "/": "." is dropped, ".." removes the last segment
RECURSIVE Normalize(_, _, _)
Normalize(acc, segs, i) ==
    IF i > Len(segs) THEN acc
    ELSE IF segs[i] = <<".">> THEN Normalize(acc, segs, i + 1)
    ELSE IF segs[i] = <<".", ".">> THEN Normalize(Dirname(acc), segs, i + 1)
    ELSE Normalize(Append(acc, segs[i]), segs, i + 1)

Resolve(dir, rel) == Normalize(dir, Segments(rel), 1)

\* ------------------------------------------------------ workflowsTransform
AlphaNum == Lower \cup Upper \cup Digit

\* s.replace(/[^a-z0-9]+/i, '-'): the pattern has no g flag, so only the
\* first run of non-alphanumeric characters is replaced
ReplaceFirstNonAlnumRun(s) ==
    LET bad == {i \in 1..Len(s) : s[i] \notin AlphaNum}
    IN IF bad = {} THEN s
       ELSE LET first == CHOOSE i \in bad : \A j \in bad : i <= j
                after == {j \in first..Len(s) : \A k \in first..j : k \in bad}
                last == CHOOSE j \in after : \A k \in after : k <= j
            IN SubSeq(s, 1, first - 1) \o <<"-">> \o SubSeq(s, last + 1, Len(s))

\* s.replace(/^-/, '')
StripLeadingDash(s) == IF Len(s) > 0 /\ s[1] = "-" THEN Tail(s) ELSE s

\* s.replace(/-$/, '')
StripTrailingDash(s) == IF Len(s) > 0 /\ s[Len(s)] = "-" THEN SubSeq(s, 1, Len(s) - 1) ELSE s

\* baseWorkflowsBundleId
BaseWorkflowsBundleId(workflowsPath) ==
    StripTrailingDash(StripLeadingDash(ReplaceFirstNonAlnumRun(Basename(workflowsPath))))

\* The decimal digits of a natural number, as `${n}` prints it
DigitChar(d) == <<"0","1","2","3","4","5","6","7","8","9">>[d + 1]

RECURSIVE ToDecimal(_)
ToDecimal(n) == IF n < 10 THEN <<DigitChar(n)>> ELSE ToDecimal(n \div 10) \o <<DigitChar(n % 10)>>

\* Property names every object inherits from Object.prototype and that an
\* identifier can spell; the in operator finds them in an empty table
ObjectPrototypeKeys ==
    { <<"c","o","n","s","t","r","u","c","t","o","r">>,
      <<"t","o","S","t","r","i","n","g">>,
      <<"v","a","l","u","e","O","f">>,
      <<"h","a","s","O","w","n","P","r","o","p","e","r","t","y">>,
      <<"i","s","P","r","o","t","o","t","y","p","e","O","f">>,
      <<"p","r","o","p","e","r","t","y","I","s","E","n","u","m","e","r","a","b","l","e">>,
      <<"t","o","L","o","c","a","l","e","S","t","r","i","n","g">> }

\* The table this.workflowsBundles is the sequence of its own properties
\* [id, sourcePath, targetPath] in insertion order.
OwnKeys(table) == {table[i].id : i \in 1..Len(table)}

IndexOfKey(table, id) == CHOOSE i \in 1..Len(table) : table[i].id = id

\* workflowsBundleId in this.workflowsBundles
KeyIn(table, id) == id \in OwnKeys(table) \/ id \in ObjectPrototypeKeys

\* A comparison that never tells two source paths apart
SourcePathNeverDiffers(table, id, sourcePath) == FALSE

\* this.workflowsBundles[id].sourcePath !== sourcePath; an inherited
\* property has no sourcePath (undefined)
SourcePathDiffers(table, id, sourcePath) ==
    IF id \in OwnKeys(table) THEN table[IndexOfKey(table, id)].sourcePath # sourcePath
    ELSE TRUE

\* The collision loop (let suffix = 1; while (...) id = `${base}-${suffix++}`)
RECURSIVE ResolveCollision(_, _, _, _, _)
ResolveCollision(table, base, sourcePath, id, suffix) ==
    IF KeyIn(table, id) /\ SourcePathDiffers(table, id, sourcePath)
    THEN ResolveCollision(table, base, sourcePath, base \o <<"-">> \o ToDecimal(suffix), suffix + 1)
    ELSE id

\* `./${workflowsBundleId}.workflowbundle.js`
TargetPathOf(id) ==
    <<".", "/">> \o id \o <<".","w","o","r","k","f","l","o","w","b","u","n","d","l","e",".","j","s">>

\* this.workflowsBundles[id] = entry: an existing own property keeps its place
SetEntry(table, entry) ==
    IF entry.id \in OwnKeys(table)
    THEN [table EXCEPT ![IndexOfKey(table, entry.id)] = entry]
    ELSE Append(table, entry)

\* workflowsTransform without its check of the reference
workflowsTransformUnchecked(table, workflowsPath, filename) ==
    LET sourcePath == Resolve(Dirname(filename), workflowsPath)
        base == BaseWorkflowsBundleId(workflowsPath)
        id == ResolveCollision(table, base, sourcePath, base, 1)
        targetPath == TargetPathOf(id)
    IN [threw |-> FALSE, result |-> targetPath,
        table |-> SetEntry(table, [id |-> id, sourcePath |-> sourcePath, targetPath |-> targetPath])]

\* The hook handed to the babel plugin.  filename is the absolute path of the
\* referencing file, as segments.  Returns what the call throws or returns
\* and the table after the call.
workflowsTransform(table, workflowsPath, filename) ==
    IF ~(StartsWith(workflowsPath, <<".", "/">>) \/ StartsWith(workflowsPath, <<".", ".", "/">>))
    THEN [threw |-> TRUE, result |-> << >>, table |-> table]
    ELSE LET sourcePath == Resolve(Dirname(filename), workflowsPath)
             base == BaseWorkflowsBundleId(workflowsPath)
             id == ResolveCollision(table, base, sourcePath, base, 1)
             targetPath == TargetPathOf(id)
         IN [threw |-> FALSE, result |-> targetPath,
             table |-> SetEntry(table, [id |-> id, sourcePath |-> sourcePath, targetPath |-> targetPath])]

\* -------------------------------------------------------------- file system
(* The files on disk, as absolute paths (sequences of segment names).  /app *)
(* is the entrypoint's package; pg is installed twice with two versions;   *)
(* /node_modules/pg.js has only /package.json above it, in the root       *)
(* directory; wf.workflowbundle.js is an artifact an earlier build left    *)
(* beside the sources.                                                     *)
FsFiles ==
    { <<"package.json">>,
      <<"app", "package.json">>,
      <<"app", "src", "index.ts">>,
      <<"app", "src", "util.ts">>,
      <<"app", "src", "wf.workflowbundle.js">>,
      <<"app", "node_modules", "pg", "package.json">>,
      <<"app", "node_modules", "pg", "index.js">>,
      <<"app", "node_modules", "ms", "package.json">>,
      <<"app", "node_modules", "ms", "index.js">>,
      <<"vendor", "node_modules", "pg", "package.json">>,
      <<"vendor", "node_modules", "pg", "index.js">>,
      <<"node_modules", "pg.js">> }

IsFile(p) == p \in FsFiles

IsDirectory(p) == \E f \in FsFiles : Len(f) > Len(p) /\ SubSeq(f, 1, Len(p)) = p

\* name and version of the package.json in each package root
PackageJsonAt(root) ==
    CASE root = <<"app">> -> [name |-> <<"a","p","p">>, version |-> "1.0.0"]
      [] root = <<"app", "node_modules", "pg">> -> [name |-> <<"p","g">>, version |-> "8.0.0"]
      [] root = <<"app", "node_modules", "ms">> -> [name |-> <<"m","s">>, version |-> "2.1.3"]
      [] root = <<"vendor", "node_modules", "pg">> -> [name |-> <<"p","g">>, version |-> "7.0.0"]

\* while (p !== '/') { if (existsSync(`${p}/package.json`)) return p; p = dirname(p) }
RECURSIVE WalkUp(_)
WalkUp(p) ==
    IF p = << >> THEN [threw |-> FALSE, found |-> FALSE, path |-> << >>]
    ELSE IF IsFile(Append(p, "package.json")) THEN [threw |-> FALSE, found |-> TRUE, path |-> p]
    ELSE WalkUp(Dirname(p))

\* findPackageRoot: statSync throws on a path that does not exist; found =
\* FALSE is the null result
findPackageRoot(p) ==
    IF ~(IsFile(p) \/ IsDirectory(p)) THEN [threw |-> TRUE, found |-> FALSE, path |-> << >>]
    ELSE WalkUp(IF IsFile(p) THEN Dirname(p) ELSE p)

EntrypointPath == <<"app", "src", "index.ts">>

\* ------------------------------------------------------ extractDependencies
\* /^[.][.]?[/]/.test(request)
IsRelativeRequest(request) ==
    StartsWith(request, <<".", "/">>) \/ StartsWith(request, <<".", ".", "/">>)

Undefined == [defined |-> FALSE, value |-> << >>]

\* `commonjs ${data.request}`
CommonJs(request) == [defined |-> TRUE, value |-> <<"c","o","m","m","o","n","j","s"," ">> \o request]

\* this.packageJson.dependencies[name] = `${version}`
SetDependency(deps, name, version) ==
    [n \in DOMAIN deps \cup {name} |-> IF n = name THEN version ELSE deps[n]]

\* The default logic after the try block
FallbackClassification(patterns, deps, request) ==
    LET some == Some(patterns, request, 1)
    IN IF some.matched
       THEN [result |-> CommonJs(request), deps |-> deps, patterns |-> some.patterns,
             warned |-> ~IsRelativeRequest(request), branch |-> "fallback"]
       ELSE [result |-> Undefined, deps |-> deps, patterns |-> some.patterns,
             warned |-> FALSE, branch |-> "fallback"]

\* extractDependencies returning external-commonjs without recording the version
extractDependenciesNotRecording(patterns, entryRoot, deps, request, resolution) ==
    IF resolution.kind # "path" THEN FallbackClassification(patterns, deps, request)
    ELSE LET packageRoot == findPackageRoot(resolution.path)
         IN IF packageRoot.threw THEN FallbackClassification(patterns, deps, request)
            ELSE IF packageRoot.found /\ packageRoot # entryRoot
            THEN LET pkg == PackageJsonAt(packageRoot.path)
                     some == Some(patterns, pkg.name, 1)
                 IN IF some.matched
                    THEN [result |-> CommonJs(request), deps |-> deps, patterns |-> some.patterns,
                          warned |-> FALSE, branch |-> "boundary"]
                    ELSE [result |-> Undefined, deps |-> deps, patterns |-> some.patterns,
                          warned |-> FALSE, branch |-> "boundary"]
            ELSE FallbackClassification(patterns, deps, request)

(* The externals callback.  resolution is what data.getResolve() produced:  *)
(* [kind |-> "path", path |-> p], [kind |-> "rejects"] (the promise rejects) *)
(* or [kind |-> "unusable"] (a value that is no path, such as false).  A     *)
(* throw inside the try block (statSync on something that is no existing     *)
(* path) lands in the default logic as well.                                 *)
extractDependencies(patterns, entryRoot, deps, request, resolution) ==
    IF resolution.kind # "path" THEN FallbackClassification(patterns, deps, request)
    ELSE LET packageRoot == findPackageRoot(resolution.path)
         IN IF packageRoot.threw THEN FallbackClassification(patterns, deps, request)
            ELSE IF packageRoot.found /\ packageRoot # entryRoot
            THEN LET pkg == PackageJsonAt(packageRoot.path)
                     some == Some(patterns, pkg.name, 1)
                 IN IF some.matched
                    THEN [result |-> CommonJs(request),
                          deps |-> SetDependency(deps, pkg.name, pkg.version),
                          patterns |-> some.patterns, warned |-> FALSE, branch |-> "boundary"]
                    ELSE [result |-> Undefined, deps |-> deps, patterns |-> some.patterns,
                          warned |-> FALSE, branch |-> "boundary"]
            ELSE FallbackClassification(patterns, deps, request)

\* ----------------------------------------------------------- Object.values
\* A canonical array index: decimal digits without a leading zero
IsArrayIndex(id) ==
    /\ Len(id) > 0
    /\ \A i \in 1..Len(id) : id[i] \in Digit
    /\ Len(id) > 1 => id[1] # "0"

DigitValue(c) == CHOOSE d \in 0..9 : DigitChar(d) = c

RECURSIVE ToNumber(_)
ToNumber(id) ==
    IF Len(id) = 0 THEN 0
    ELSE 10 * ToNumber(SubSeq(id, 1, Len(id) - 1)) + DigitValue(id[Len(id)])

RECURSIVE SortByIndex(_, _)
SortByIndex(table, idxs) ==
    IF idxs = {} THEN << >>
    ELSE LET m == CHOOSE i \in idxs : \A j \in idxs : ToNumber(table[i].id) <= ToNumber(table[j].id)
         IN <<table[m]>> \o SortByIndex(table, idxs \ {m})

\* Object.values: own properties, array-index keys first in ascending
\* numeric order, then the other keys in insertion order
ObjectValues(table) ==
    SortByIndex(table, {i \in 1..Len(table) : IsArrayIndex(table[i].id)})
    \o SelectSeq(table, LAMBDA e : ~IsArrayIndex(e.id))

\* ------------------------------------------------------------------- state
VARIABLES
    externalDepsPatterns,   \* this.externalDepsPatterns
    entrypointPackageRoot,  \* this.entrypointPackageRoot
    workflowsBundles,       \* this.workflowsBundles
    packageJson,            \* this.packageJson
    pc,                     \* position inside bundle()
    compiler,               \* the webpack compiler: "none", "created", "running", "finished", "closed"
    modulesRead,            \* source files the running compiler has loaded
    transformFailed,        \* a loader of the running compiler threw
    settled,                \* the promise around compiler.run: "pending", "resolved", "rejected"
    diagnostics,            \* console level the stats lines were logged at, "none" when not logged
    callback,               \* what compiler.run passed to its callback: [err, stats]
    closeError,             \* compiler.close reported an error
    wfList,                 \* the Object.values array bundleWorkflows iterates
    wfIndex,                \* index of the entry bundleWorkflows is at
    outputs,                \* workflow artifacts written to the target directory
    manifest,               \* content of the written package.json
    phases,                 \* calls and completions inside the current bundle()
    lastCall,               \* the most recent hook call and its outcome
    nCalls,                 \* hook calls so far
    hookLimit,              \* hook calls the compiler makes at most
    registered,             \* [sourcePath, base] of the accepted references, in order of first use
    nBundles,               \* bundle() calls so far
    boundaryExternalized,   \* package names externalized through a package boundary
    fallbackExternalized,   \* requests externalized by the default logic
    reInput, reCandidate, rePc, reCompiled, reMatched,  \* a toRegExp / test run
    idInput, idPc, idCandidate, idTarget, idExternal,   \* one reference through the rewriter and the classifier
    prInput, prPc, prResult,                            \* a findPackageRoot run
    classified                                          \* the classifier calls of a build, with what they returned

instanceVars == <<externalDepsPatterns, entrypointPackageRoot, workflowsBundles, packageJson>>
engineVars == <<compiler, modulesRead, transformFailed, settled, diagnostics, callback, closeError>>
workflowVars == <<wfList, wfIndex, outputs>>
hookVars == <<lastCall, nCalls, hookLimit, registered, boundaryExternalized, fallbackExternalized>>
reVars == <<reInput, reCandidate, rePc, reCompiled, reMatched>>
idVars == <<idInput, idPc, idCandidate, idTarget, idExternal>>
prVars == <<prInput, prPc, prResult>>
clVars == <<classified>>
pureVars == <<reVars, idVars, prVars, clVars>>
vars == <<instanceVars, engineVars, workflowVars, hookVars, pureVars, pc, manifest, phases, nBundles>>

\* ------------------------------------------------------------------ inputs
\* The externals option
ExternalsChoices ==
    { << >>,
      <<[type |-> "string", value |-> <<"p","g">>]>>,
      <<[type |-> "RegExp",
         value |-> [ok |-> TRUE, elems |-> Lit(<<"p">>), anchoredStart |-> TRUE, anchoredEnd |-> FALSE,
                    global |-> FALSE, lastIndex |-> 0]]>> }

\* Workflow references found in the sources
WorkflowRefs ==
    { <<".","/","w","f">>,
      <<".","/","w","f","/",".">>,
      <<".",".","/","a","/","w","f">>,
      <<"w","f">>,
      <<".","/","c","o","n","s","t","r","u","c","t","o","r">> }

\* The source files that hold them
SourceFiles == { << <<"a">>, <<"x",".","t","s">> >>, << <<"b">>, <<"y",".","t","s">> >> }

ResolvedTo(p) == [kind |-> "path", path |-> p]
Rejects == [kind |-> "rejects", path |-> << >>]
Unusable == [kind |-> "unusable", path |-> << >>]

\* The module requests the compiler meets, each with a way its resolution ends
ModuleRequests ==
    ({<<"p","g">>} \X { ResolvedTo(<<"app", "node_modules", "pg", "index.js">>),
                        ResolvedTo(<<"vendor", "node_modules", "pg", "index.js">>),
                        ResolvedTo(<<"node_modules", "pg.js">>),
                        Rejects })
    \cup ({<<"m","s">>} \X { ResolvedTo(<<"app", "node_modules", "ms", "index.js">>), Rejects })
    \cup ({<<".","/","u","t","i","l">>} \X { ResolvedTo(<<"app", "src", "util.ts">>), Rejects })
    \cup ({<<".","/","w","f",".","w","o","r","k","f","l","o","w","b","u","n","d","l","e",".","j","s">>}
          \X { ResolvedTo(<<"app", "src", "wf.workflowbundle.js">>), Rejects })
    \cup ({<<"w","e","b","p","a","c","k">>} \X { Unusable })

\* path.dirname(this.targetPath), as segments
TargetDirectory == << <<"d","i","s","t">> >>

NoCall == [hook |-> "none", arg |-> << >>, filename |-> << >>, resolution |-> Rejects,
           threw |-> FALSE, result |-> Undefined, warned |-> FALSE, branch |-> "none"]

NoCallback == [err |-> FALSE, stats |-> "undefined"]

NotWritten == [written |-> FALSE, dependencies |-> << >>, main |-> "", private |-> FALSE]

\* -------------------------------------------------------------------- Init
RegExpIdle ==
    /\ reInput = << >>
    /\ reCandidate = << >>
    /\ rePc = "idle"
    /\ reCompiled = Anchored(<< >>)
    /\ reMatched = FALSE

CandidateIdle ==
    /\ idInput = << >>
    /\ idPc = "idle"
    /\ idCandidate = << >>
    /\ idTarget = << >>
    /\ idExternal = FALSE

PackageRootIdle ==
    /\ prInput = << >>
    /\ prPc = "idle"
    /\ prResult = [threw |-> FALSE, found |-> FALSE, path |-> << >>]

ClassifierIdle == classified = {}

\* The state the constructor leaves, for an absolute entrypointPath
ConstructedFrom(choices) ==
    /\ \E externals \in choices :
         externalDepsPatterns = BuildExternalDepsPatterns(externals)
    /\ entrypointPackageRoot = findPackageRoot(EntrypointPath)
    /\ workflowsBundles = << >>
    /\ packageJson = [dependencies |-> << >>, main |-> "index.ts", private |-> TRUE]
    /\ pc = "idle"
    /\ compiler = "none"
    /\ modulesRead = {}
    /\ transformFailed = FALSE
    /\ settled = "pending"
    /\ diagnostics = "none"
    /\ callback = NoCallback
    /\ closeError = FALSE
    /\ wfList = << >>
    /\ wfIndex = 0
    /\ outputs = {}
    /\ manifest = NotWritten
    /\ phases = << >>
    /\ lastCall = NoCall
    /\ nCalls = 0
    /\ registered = << >>
    /\ nBundles = 0
    /\ boundaryExternalized = {}
    /\ fallbackExternalized = {}

Constructed == ConstructedFrom(ExternalsChoices)

Init == Constructed /\ RegExpIdle /\ CandidateIdle /\ PackageRootIdle /\ ClassifierIdle /\ hookLimit = MaxBuildHookCalls

\* ------------------------------------------------------------------ bundle
Ev(name) == [ev |-> name, arg |-> << >>]

\* bundle() going on to the next step after a step raised
AfterStepIgnoringFailure(step, ok) ==
    CASE step = "bundleWorker" -> "bundleWorkflows"
      [] step = "bundleWorkflows" -> "generatePackageJson"
      [] step = "generatePackageJson" -> "done"

\* bundle() awaits its three steps in turn; a step that raises rejects bundle()
AfterStep(step, ok) ==
    IF ~ok THEN "failed"
    ELSE CASE step = "bundleWorker" -> "bundleWorkflows"
           [] step = "bundleWorkflows" -> "generatePackageJson"
           [] step = "generatePackageJson" -> "done"

\* A call of bundle() on the constructed instance; nothing of the instance is
\* reset
Bundle ==
    /\ pc \in {"idle", "done", "failed"}
    /\ nBundles < MaxBundleCalls
    /\ nBundles' = nBundles + 1
    /\ pc' = "bundleWorker"
    /\ phases' = <<Ev("bundleWorker")>>
    /\ compiler' = "none"
    /\ modulesRead' = {}
    /\ transformFailed' = FALSE
    /\ settled' = "pending"
    /\ diagnostics' = "none"
    /\ callback' = NoCallback
    /\ closeError' = FALSE
    /\ wfList' = << >>
    /\ wfIndex' = 0
    /\ lastCall' = NoCall
    /\ boundaryExternalized' = {}
    /\ fallbackExternalized' = {}
    /\ UNCHANGED <<instanceVars, outputs, manifest, nCalls, hookLimit, registered, pureVars>>

\* const compiler = webpack(webpackConfig)
CreateCompiler ==
    /\ pc = "bundleWorker"
    /\ compiler' = "created"
    /\ pc' = "run"
    /\ phases' = Append(phases, Ev("webpack"))
    /\ UNCHANGED <<instanceVars, modulesRead, transformFailed, settled, diagnostics, callback, closeError,
                   workflowVars, hookVars, pureVars, manifest, nBundles>>

\* compiler.run(callback) inside the promise executor
CompilerRun ==
    /\ pc = "run"
    /\ compiler' = "running"
    /\ pc' = "running"
    /\ UNCHANGED <<instanceVars, modulesRead, transformFailed, settled, diagnostics, callback, closeError,
                   workflowVars, hookVars, pureVars, manifest, phases, nBundles>>

\* The running compiler reads a source file and hands it to the loaders
LoadModule(f) ==
    /\ pc = "running"
    /\ f \notin modulesRead
    /\ modulesRead' = modulesRead \cup {f}
    /\ UNCHANGED <<instanceVars, compiler, transformFailed, settled, diagnostics, callback, closeError,
                   workflowVars, hookVars, pureVars, pc, manifest, phases, nBundles>>

\* The babel plugin meets a workflow reference in a loaded file
CallWorkflowsTransform(workflowsPath, filename) ==
    /\ pc = "running"
    /\ filename \in modulesRead
    /\ nCalls < hookLimit
    /\ LET r == workflowsTransform(workflowsBundles, workflowsPath, filename)
       IN /\ workflowsBundles' = r.table
          /\ transformFailed' = (transformFailed \/ r.threw)
          /\ lastCall' = [hook |-> "workflowsTransform", arg |-> workflowsPath,
                          filename |-> filename, resolution |-> Rejects, threw |-> r.threw,
                          result |-> [defined |-> ~r.threw, value |-> r.result],
                          warned |-> FALSE, branch |-> "none"]
    /\ registered' =
          LET reg == [sourcePath |-> Resolve(Dirname(filename), workflowsPath),
                      base |-> BaseWorkflowsBundleId(workflowsPath)]
          IN IF lastCall'.threw \/ \E i \in 1..Len(registered) : registered[i] = reg
             THEN registered
             ELSE Append(registered, reg)
    /\ nCalls' = nCalls + 1
    /\ UNCHANGED <<externalDepsPatterns, entrypointPackageRoot, packageJson, compiler,
                   modulesRead, settled, diagnostics, callback, closeError, workflowVars, hookLimit,
                   boundaryExternalized, fallbackExternalized, pureVars, pc, manifest, phases,
                   nBundles>>

\* The compiler asks the externals callback about a module request
ExternalsCallback(request, resolution) ==
    /\ pc = "running"
    /\ nCalls < hookLimit
    /\ LET r == extractDependencies(externalDepsPatterns, entrypointPackageRoot,
                                    packageJson.dependencies, request, resolution)
       IN /\ packageJson' = [packageJson EXCEPT !.dependencies = r.deps]
          /\ externalDepsPatterns' = r.patterns
          /\ lastCall' = [hook |-> "extractDependencies", arg |-> request, filename |-> << >>,
                          resolution |-> resolution, threw |-> FALSE, result |-> r.result,
                          warned |-> r.warned, branch |-> r.branch]
          /\ boundaryExternalized' =
                IF r.result.defined /\ r.branch = "boundary"
                THEN boundaryExternalized \cup {PackageJsonAt(findPackageRoot(resolution.path).path).name}
                ELSE boundaryExternalized
          /\ fallbackExternalized' =
                IF r.result.defined /\ r.branch = "fallback"
                THEN fallbackExternalized \cup {request}
                ELSE fallbackExternalized
    /\ nCalls' = nCalls + 1
    /\ UNCHANGED <<entrypointPackageRoot, workflowsBundles, engineVars, workflowVars, hookLimit,
                   registered, pc, manifest, phases, nBundles>>

CallExtractDependencies(request, resolution) ==
    ExternalsCallback(request, resolution) /\ UNCHANGED pureVars

\* A promise that is rejected for a hard error only
SettleIgnoringStats(err, stats) ==
    IF err THEN "rejected" ELSE "resolved"

\* Whether the promise around compiler.run is rejected: reject() on stats
\* with errors, reject(err) on a hard error, resolve() otherwise (the first
\* settlement wins)
Settle(err, stats) ==
    IF stats = "errors" \/ err THEN "rejected" ELSE "resolved"

\* console[hasError ? 'error' : 'info'](line) for every line of the stats
LogLevel(stats) ==
    CASE stats = "undefined" -> "none"
      [] stats = "errors" -> "error"
      [] stats = "clean" -> "info"

\* bundleWorker closing the compiler on the success path only
AfterSettleWithoutFinally(state) == IF state = "rejected" THEN "failed" ELSE "finally"

\* try { await promise } finally { close }: whichever way the promise settles,
\* control reaches the finally block
AfterSettle(state) == "finally"

\* The completion callback of compiler.run: callback(err) or callback(null, stats).
\* An exception thrown by a loader ends up as an error of the stats.
RunCallback(err, stats) ==
    /\ pc = "running"
    /\ err <=> (stats = "undefined")
    /\ transformFailed => (err \/ stats = "errors")
    /\ compiler' = "finished"
    /\ diagnostics' = LogLevel(stats)
    /\ settled' = Settle(err, stats)
    /\ callback' = [err |-> err, stats |-> stats]
    /\ pc' = AfterSettle(settled')
    /\ UNCHANGED <<instanceVars, modulesRead, transformFailed, closeError, workflowVars, hookVars,
                   pureVars, manifest, phases, nBundles>>

\* await util.promisify(compiler.close).bind(compiler)(); then bundleWorker
\* returns, or raises the rejection of the promise or of close
CompilerClose(closeOk) ==
    /\ pc = "finally"
    /\ compiler' = "closed"
    /\ LET ok == closeOk /\ settled = "resolved"
       IN /\ phases' = phases \o <<Ev("close"),
                                   Ev(IF ok THEN "bundleWorker.return" ELSE "bundleWorker.raise")>>
          /\ pc' = AfterStep("bundleWorker", ok)
    /\ closeError' = ~closeOk
    /\ UNCHANGED <<instanceVars, modulesRead, transformFailed, settled, diagnostics, callback,
                   workflowVars, hookVars, pureVars, manifest, nBundles>>

\* bundleWorkflows is entered: Object.values(this.workflowsBundles)
StartWorkflows ==
    /\ pc = "bundleWorkflows"
    /\ wfList' = ObjectValues(workflowsBundles)
    /\ wfIndex' = 1
    /\ pc' = "wf_compile"
    /\ phases' = Append(phases, Ev("bundleWorkflows"))
    /\ UNCHANGED <<instanceVars, engineVars, outputs, hookVars, pureVars, manifest, nBundles>>

\* bundleWorkflows going on to the next entry after a compiler failure
CompileWorkflowSkippingFailed(ok) ==
    /\ pc = "wf_compile"
    /\ wfIndex <= Len(wfList)
    /\ IF ok
       THEN /\ pc' = "wf_write"
            /\ phases' = Append(phases, [ev |-> "compile", arg |-> wfList[wfIndex].id])
            /\ UNCHANGED wfIndex
       ELSE /\ pc' = "wf_compile"
            /\ phases' = Append(phases, Ev("bundleWorkflows.raise"))
            /\ wfIndex' = wfIndex + 1
    /\ UNCHANGED <<instanceVars, engineVars, wfList, outputs, hookVars, pureVars, manifest, nBundles>>

\* await bundleWorkflowCode({ workflowsPath: bundleDefinition.sourcePath })
CompileWorkflow(ok) ==
    /\ pc = "wf_compile"
    /\ wfIndex <= Len(wfList)
    /\ IF ok
       THEN /\ pc' = "wf_write"
            /\ phases' = Append(phases, [ev |-> "compile", arg |-> wfList[wfIndex].id])
       ELSE /\ pc' = AfterStep("bundleWorkflows", FALSE)
            /\ phases' = Append(phases, Ev("bundleWorkflows.raise"))
    /\ UNCHANGED <<instanceVars, engineVars, workflowVars, hookVars, pureVars, manifest, nBundles>>

\* realFS.writeFileSync(path.resolve(targetDirectory, targetPath), code)
WriteWorkflow(ok) ==
    /\ pc = "wf_write"
    /\ IF ok
       THEN /\ outputs' = outputs \cup {Resolve(TargetDirectory, wfList[wfIndex].targetPath)}
            /\ wfIndex' = wfIndex + 1
            /\ pc' = "wf_compile"
            /\ phases' = Append(phases, [ev |-> "write", arg |-> wfList[wfIndex].id])
       ELSE /\ pc' = AfterStep("bundleWorkflows", FALSE)
            /\ phases' = Append(phases, Ev("bundleWorkflows.raise"))
            /\ UNCHANGED <<outputs, wfIndex>>
    /\ UNCHANGED <<instanceVars, engineVars, wfList, hookVars, pureVars, manifest, nBundles>>

\* The for loop is over: bundleWorkflows returns
FinishWorkflows ==
    /\ pc = "wf_compile"
    /\ wfIndex > Len(wfList)
    /\ pc' = AfterStep("bundleWorkflows", TRUE)
    /\ phases' = Append(phases, Ev("bundleWorkflows.return"))
    /\ UNCHANGED <<instanceVars, engineVars, workflowVars, hookVars, pureVars, manifest, nBundles>>

\* generatePackageJson: JSON.stringify(this.packageJson) written to package.json
GeneratePackageJson(ok) ==
    /\ pc = "generatePackageJson"
    /\ IF ok
       THEN /\ manifest' = [written |-> TRUE, dependencies |-> packageJson.dependencies,
                            main |-> packageJson.main, private |-> packageJson.private]
            /\ phases' = phases \o <<Ev("generatePackageJson"), Ev("generatePackageJson.return")>>
       ELSE /\ phases' = phases \o <<Ev("generatePackageJson"), Ev("generatePackageJson.raise")>>
            /\ UNCHANGED manifest
    /\ pc' = AfterStep("generatePackageJson", ok)
    /\ UNCHANGED <<instanceVars, engineVars, workflowVars, hookVars, pureVars, nBundles>>

Next ==
    \/ Bundle
    \/ CreateCompiler
    \/ CompilerRun
    \/ \E f \in SourceFiles : LoadModule(f)
    \/ \E w \in WorkflowRefs, f \in SourceFiles : CallWorkflowsTransform(w, f)
    \/ \E m \in ModuleRequests : CallExtractDependencies(m[1], m[2])
    \/ \E err \in BOOLEAN, stats \in {"undefined", "clean", "errors"} : RunCallback(err, stats)
    \/ \E closeOk \in BOOLEAN : CompilerClose(closeOk)
    \/ StartWorkflows
    \/ \E ok \in BOOLEAN : CompileWorkflow(ok)
    \/ \E ok \in BOOLEAN : WriteWorkflow(ok)
    \/ FinishWorkflows
    \/ \E ok \in BOOLEAN : GeneratePackageJson(ok)

Spec == Init /\ [][Next]_vars

\* The main build alone, with more hook calls
InitMainBuild ==
    Constructed /\ RegExpIdle /\ CandidateIdle /\ PackageRootIdle /\ ClassifierIdle /\ hookLimit = MaxHookCalls

NextMainBuild ==
    \/ Bundle
    \/ CreateCompiler
    \/ CompilerRun
    \/ \E f \in SourceFiles : LoadModule(f)
    \/ \E w \in WorkflowRefs, f \in SourceFiles : CallWorkflowsTransform(w, f)
    \/ \E m \in ModuleRequests : CallExtractDependencies(m[1], m[2])

SpecMainBuild == InitMainBuild /\ [][NextMainBuild]_vars

\* The main build with the classifier calls kept, and with a rule given as
\* a RegExp that has the g flag: /^pg$/g
GlobalRuleChoices ==
    { <<[type |-> "RegExp",
         value |-> [ok |-> TRUE, elems |-> Lit(<<"p","g">>), anchoredStart |-> TRUE,
                    anchoredEnd |-> TRUE, global |-> TRUE, lastIndex |-> 0]]>> }

InitClassifier ==
    /\ ConstructedFrom(ExternalsChoices \cup GlobalRuleChoices)
    /\ RegExpIdle /\ CandidateIdle /\ PackageRootIdle /\ ClassifierIdle
    /\ hookLimit = MaxClassifierCalls

\* The (name, version) a classifier call recorded, if any
Recorded(call) ==
    IF call.result.defined /\ call.branch = "boundary"
    THEN LET pkg == PackageJsonAt(findPackageRoot(call.resolution.path).path)
         IN <<pkg.name, pkg.version>>
    ELSE << >>

TracedExternalsCallback(request, resolution) ==
    /\ ExternalsCallback(request, resolution)
    /\ classified' = classified \cup
          {[request |-> request, resolution |-> resolution, result |-> lastCall'.result,
            recorded |-> Recorded(lastCall')]}
    /\ UNCHANGED <<reVars, idVars, prVars>>

NextClassifier ==
    \/ Bundle
    \/ CreateCompiler
    \/ CompilerRun
    \/ \E m \in ModuleRequests : TracedExternalsCallback(m[1], m[2])

SpecClassifier == InitClassifier /\ [][NextClassifier]_vars

\* A build whose sources hold workflow references only, followed through
\* bundleWorkflows and generatePackageJson
NumericRefs == { <<".","/","7">> }

InitWorkflows ==
    /\ Constructed
    /\ externalDepsPatterns = BuildExternalDepsPatterns(<< >>)
    /\ RegExpIdle /\ CandidateIdle /\ PackageRootIdle /\ ClassifierIdle
    /\ hookLimit = MaxWorkflowRefs

NextWorkflows ==
    \/ Bundle
    \/ CreateCompiler
    \/ CompilerRun
    \/ \E f \in SourceFiles : LoadModule(f)
    \/ \E w \in WorkflowRefs \cup NumericRefs, f \in SourceFiles : CallWorkflowsTransform(w, f)
    \/ \E err \in BOOLEAN, stats \in {"undefined", "clean", "errors"} : RunCallback(err, stats)
    \/ \E closeOk \in BOOLEAN : CompilerClose(closeOk)
    \/ StartWorkflows
    \/ \E ok \in BOOLEAN : CompileWorkflow(ok)
    \/ \E ok \in BOOLEAN : WriteWorkflow(ok)
    \/ FinishWorkflows
    \/ \E ok \in BOOLEAN : GeneratePackageJson(ok)

SpecWorkflows == InitWorkflows /\ [][NextWorkflows]_vars

\* ------------------------------------------------------- toRegExp on its own
RuleChars == {"a", "b", ".", "+"}

InitRegExp ==
    /\ Constructed
    /\ CandidateIdle
    /\ PackageRootIdle /\ ClassifierIdle
    /\ hookLimit = 0
    /\ reInput \in StringsUpTo(RuleChars, MaxLitLen)
    /\ reCandidate \in StringsUpTo(RuleChars, MaxCandLen)
    /\ rePc = "compile"
    /\ reCompiled = Anchored(<< >>)
    /\ reMatched = FALSE

\* (opts.externals ?? []).map(toRegExp) for a literal string
CompileRule ==
    /\ rePc = "compile"
    /\ reCompiled' = toRegExp([type |-> "string", value |-> reInput])
    /\ rePc' = "test"
    /\ UNCHANGED <<instanceVars, engineVars, workflowVars, hookVars, pc, manifest, phases,
                   nBundles, reInput, reCandidate, reMatched, idVars, prVars, clVars>>

\* pattern.test(candidate)
TestRule ==
    /\ rePc = "test"
    /\ reMatched' = Test(reCompiled, reCandidate)
    /\ rePc' = "tested"
    /\ UNCHANGED <<instanceVars, engineVars, workflowVars, hookVars, pc, manifest, phases,
                   nBundles, reInput, reCandidate, reCompiled, idVars, prVars, clVars>>

NextRegExp == CompileRule \/ TestRule

SpecRegExp == InitRegExp /\ [][NextRegExp]_vars

\* --------------------------------------- one workflow reference on its own
NameChars == {"a", "B", "1", ".", "-"}

\* The file that holds the reference
ReferencingFile == << <<"a">>, <<"x",".","t","s">> >>

\* A reference ./<name> met on an empty table
InitCandidate ==
    /\ Constructed
    /\ RegExpIdle
    /\ PackageRootIdle /\ ClassifierIdle
    /\ hookLimit = 0
    /\ \E name \in StringsUpTo(NameChars, MaxNameLen) :
         /\ name # << >>
         /\ idInput = <<".", "/">> \o name
    /\ idPc = "derive"
    /\ idCandidate = << >>
    /\ idTarget = << >>
    /\ idExternal = FALSE

\* baseWorkflowsBundleId = path.basename(workflowsPath).replace(...)...
DeriveCandidate ==
    /\ idPc = "derive"
    /\ idCandidate' = BaseWorkflowsBundleId(idInput)
    /\ idPc' = "mint"
    /\ UNCHANGED <<instanceVars, engineVars, workflowVars, hookVars, pc, manifest, phases,
                   nBundles, reVars, prVars, clVars, idInput, idTarget, idExternal>>

\* The target path workflowsTransform returns for the reference
MintTarget ==
    /\ idPc = "mint"
    /\ idTarget' = workflowsTransform(workflowsBundles, idInput, ReferencingFile).result
    /\ idPc' = "classify"
    /\ UNCHANGED <<instanceVars, engineVars, workflowVars, hookVars, pc, manifest, phases,
                   nBundles, reVars, prVars, clVars, idInput, idCandidate, idExternal>>

\* The compiler meets the rewritten reference; the artifact does not exist
\* yet, so its resolution rejects
ClassifyTarget ==
    /\ idPc = "classify"
    /\ idExternal' = extractDependencies(externalDepsPatterns, entrypointPackageRoot,
                                         packageJson.dependencies, idTarget, Rejects).result.defined
    /\ idPc' = "classified"
    /\ UNCHANGED <<instanceVars, engineVars, workflowVars, hookVars, pc, manifest, phases,
                   nBundles, reVars, prVars, clVars, idInput, idCandidate, idTarget>>

NextCandidate == DeriveCandidate \/ MintTarget \/ ClassifyTarget

SpecCandidate == InitCandidate /\ [][NextCandidate]_vars

\* ------------------------------------------------- findPackageRoot on its own
PathNames == {"app", "src", "node_modules", "pg", "index.js", "package.json", "vendor", "missing"}

RECURSIVE PathsUpTo(_)
PathsUpTo(n) ==
    IF n = 0 THEN {<< >>}
    ELSE LET shorter == PathsUpTo(n - 1)
         IN shorter \cup {Append(q, name) : q \in shorter, name \in PathNames}

\* An absolute path, existing or not
InitPackageRoot ==
    /\ Constructed
    /\ externalDepsPatterns = BuildExternalDepsPatterns(<< >>)
    /\ RegExpIdle /\ CandidateIdle /\ ClassifierIdle
    /\ hookLimit = 0
    /\ prInput \in PathsUpTo(MaxPathDepth)
    /\ prPc = "call"
    /\ prResult = [threw |-> FALSE, found |-> FALSE, path |-> << >>]

CallFindPackageRoot ==
    /\ prPc = "call"
    /\ prResult' = findPackageRoot(prInput)
    /\ prPc' = "returned"
    /\ UNCHANGED <<instanceVars, engineVars, workflowVars, hookVars, pc, manifest, phases,
                   nBundles, reVars, idVars, clVars, prInput>>

NextPackageRoot == CallFindPackageRoot

SpecPackageRoot == InitPackageRoot /\ [][NextPackageRoot]_vars

\* ------------------------------------------------------------------ claims
LastIsClassifier == lastCall.hook = "extractDependencies"

LastIsRewriter == lastCall.hook = "workflowsTransform"

\* The package boundary of the path the last classifier call resolved to
LastBoundary == findPackageRoot(lastCall.resolution.path)

ResolvedInsideEntryPackage ==
    /\ LastIsClassifier
    /\ lastCall.resolution.kind = "path"
    /\ ~LastBoundary.threw
    /\ LastBoundary.found
    /\ LastBoundary = entrypointPackageRoot

ResolvedToOtherBoundary ==
    /\ LastIsClassifier
    /\ lastCall.resolution.kind = "path"
    /\ ~LastBoundary.threw
    /\ LastBoundary.found
    /\ LastBoundary # entrypointPackageRoot

\* C1: a request that the classifier resolves into the entrypoint's own
\* package boundary is classified inline (undefined), whatever the rules are.
C1_OwnPackageIsInline ==
    ResolvedInsideEntryPackage => ~lastCall.result.defined

\* C2: a request resolved to another package boundary whose package name
\* matches a rule is classified external-commonjs, and after the call the
\* dependencies map that name to the version the boundary declares.
C2_MatchingPackageIsExternalAndRecorded ==
    (/\ ResolvedToOtherBoundary
     /\ MatchesAny(externalDepsPatterns, PackageJsonAt(LastBoundary.path).name))
    => LET pkg == PackageJsonAt(LastBoundary.path)
       IN /\ lastCall.result = CommonJs(lastCall.arg)
          /\ pkg.name \in DOMAIN packageJson.dependencies
          /\ packageJson.dependencies[pkg.name] = pkg.version

C2_Witness ==
    /\ ResolvedToOtherBoundary
    /\ MatchesAny(externalDepsPatterns, PackageJsonAt(LastBoundary.path).name)
    /\ lastCall.result.defined
    /\ packageJson.dependencies[<<"p","g">>] = "7.0.0"

\* The source path of the last accepted rewriter call
LastSourcePath == Resolve(Dirname(lastCall.filename), lastCall.arg)

\* C3: references that resolve to the same source path get the identical
\* target path (the one of the table's entry for that source path), and no
\* two entries of the workflow table share a sourcePath.
C3_OneEntryPerSourcePath ==
    /\ \A i, j \in 1..Len(workflowsBundles) :
         i # j => workflowsBundles[i].sourcePath # workflowsBundles[j].sourcePath
    /\ (LastIsRewriter /\ ~lastCall.threw) =>
         \A i \in 1..Len(workflowsBundles) :
            workflowsBundles[i].sourcePath = LastSourcePath
            => workflowsBundles[i].targetPath = lastCall.result.value

\* The identifier inside a returned target path ./<id>.workflowbundle.js
IdOfTarget(targetPath) == SubSeq(targetPath, 3, Len(targetPath) - 18)

\* Whether the source path sp was the first to derive the candidate base
FirstOfCandidate(sp, base) ==
    LET same == {i \in 1..Len(registered) : registered[i].base = base}
        first == CHOOSE i \in same : \A j \in same : i <= j
    IN registered[first].sourcePath = sp

\* Identifiers held by entries of source paths other than sp
HeldByOthers(sp) ==
    {workflowsBundles[i].id : i \in {k \in 1..Len(workflowsBundles) : workflowsBundles[k].sourcePath # sp}}

\* C4: of the source paths that derive the same candidate, the first keeps
\* the candidate and a later one gets candidate-k, k >= 1 the lowest suffix
\* not in use by another source path.
C4_FirstKeepsCandidateLaterGetSuffix ==
    (LastIsRewriter /\ ~lastCall.threw) =>
        LET base == BaseWorkflowsBundleId(lastCall.arg)
            id == IdOfTarget(lastCall.result.value)
        IN IF FirstOfCandidate(LastSourcePath, base)
           THEN id = base
           ELSE \E k \in 1..(Len(workflowsBundles) + 1) :
                   /\ id = base \o <<"-">> \o ToDecimal(k)
                   /\ id \notin HeldByOthers(LastSourcePath)
                   /\ \A m \in 1..(k - 1) :
                        (base \o <<"-">> \o ToDecimal(m)) \in HeldByOthers(LastSourcePath)

\* C5 as stated: a reference that does not start with "./" or "../" is
\* rejected before any build I/O has occurred, and no entry is created or
\* changed.  (The table being left alone is C5_RejectedReferenceChangesNothing.)
C5_RejectedBeforeAnyIO ==
    (LastIsRewriter /\ ~IsRelativeRequest(lastCall.arg)) =>
        (lastCall.threw /\ modulesRead = {})

\* C5 amended: a rewriter call with a reference that does not start with
\* "./" or "../" throws and leaves the workflow table as it was; the
\* referencing file has been read by the compiler by then.
C5_RejectedReferenceChangesNothing ==
    [][(/\ nCalls' = nCalls + 1
        /\ lastCall'.hook = "workflowsTransform"
        /\ ~IsRelativeRequest(lastCall'.arg))
       => (/\ lastCall'.threw
           /\ workflowsBundles' = workflowsBundles
           /\ lastCall'.filename \in modulesRead)]_vars

C5_Witness ==
    /\ LastIsRewriter
    /\ lastCall.arg = <<"w", "f">>
    /\ lastCall.threw
    /\ workflowsBundles # << >>

EventNames == [i \in 1..Len(phases) |-> phases[i].ev]

HasEvent(name) == \E i \in 1..Len(phases) : phases[i].ev = name

Before(a, b) == \E i, j \in 1..Len(phases) : i < j /\ phases[i].ev = a /\ phases[j].ev = b

BundleWorkerLeft == pc \notin {"idle", "bundleWorker", "run", "running", "finally"}

\* C6: once bundleWorker has returned or raised with a compiler created, the
\* compiler has been closed, and the close came before the return or raise.
C6_CompilerClosedBeforeLeaving ==
    (BundleWorkerLeft /\ HasEvent("webpack")) =>
        /\ compiler = "closed"
        /\ Before("close", "bundleWorker.return") \/ Before("close", "bundleWorker.raise")

C6_Witness ==
    /\ pc = "failed"
    /\ settled = "rejected"
    /\ diagnostics = "error"
    /\ compiler = "closed"

\* The calls and completions of bundle()'s three steps, in order
StepEvents ==
    SelectSeq(EventNames, LAMBDA e : e \notin {"webpack", "close", "compile", "write"})

FullRun ==
    <<"bundleWorker", "bundleWorker.return", "bundleWorkflows", "bundleWorkflows.return",
      "generatePackageJson", "generatePackageJson.return">>

IsPrefix(a, b) == Len(a) <= Len(b) /\ SubSeq(b, 1, Len(a)) = a

Raised(e) == e \in {"bundleWorker.raise", "bundleWorkflows.raise", "generatePackageJson.raise"}

\* C7: inside one bundle() the steps run in the order main build, workflow
\* builds, manifest write, each after the previous one returned; once a step
\* raised nothing further runs and bundle() has failed.
C7_PhasesInOrder ==
    LET ev == StepEvents
        n == Len(ev)
    IN /\ \/ IsPrefix(ev, FullRun)
          \/ /\ n >= 2 /\ n % 2 = 0
             /\ IsPrefix(SubSeq(ev, 1, n - 1), FullRun)
             /\ Raised(ev[n])
       /\ (\E i \in 1..n : Raised(ev[i])) => pc = "failed"
       /\ pc = "done" <=> ev = FullRun
       /\ pc = "failed" => (n >= 1 /\ Raised(ev[n]))

C7_Witness ==
    /\ pc = "failed"
    /\ HasEvent("bundleWorkflows.raise")
    /\ ~HasEvent("generatePackageJson")

\* C8: the keys of the dependencies of the manifest written at the end of a
\* build are exactly the package names the classifier externalized through a
\* package boundary in that build, and a request externalized only by the
\* raw-request fallback has no key.
C8_ManifestKeysAreBoundaryExternalized ==
    pc = "done" =>
        /\ manifest.written
        /\ DOMAIN manifest.dependencies = boundaryExternalized
        /\ \A r \in fallbackExternalized \ boundaryExternalized :
              r \notin DOMAIN manifest.dependencies

\* C9: a literal rule matches a candidate exactly when the candidate equals
\* the literal.
C9_LiteralMatchesExactly ==
    rePc = "tested" => (reMatched <=> reCandidate = reInput)

\* C10: a bundle() call starts with an empty workflow table and no recorded
\* dependencies.
C10_BundleStartsEmpty ==
    pc = "bundleWorker" =>
        /\ workflowsBundles = << >>
        /\ DOMAIN packageJson.dependencies = {}

\* C11: every target path the rewriter returns matches the built-in
\* workflow-artifact pattern, and the classifier externalizes the rewritten
\* reference.
C11_TargetMatchesBuiltInPattern ==
    /\ idPc \in {"classify", "classified"} => Test(WorkflowBundlePattern, idTarget)
    /\ idPc = "classified" => idExternal

\* C13: the candidate identifier derived from a reference's base filename
\* contains only alphanumeric characters and single '-' separators, with no
\* leading or trailing '-'.
C13_CandidateIsAlnumWithSingleDashes ==
    idPc \in {"mint", "classify", "classified"} =>
        /\ \A i \in 1..Len(idCandidate) : idCandidate[i] \in AlphaNum \cup {"-"}
        /\ \A i \in 1..(Len(idCandidate) - 1) :
              ~(idCandidate[i] = "-" /\ idCandidate[i + 1] = "-")
        /\ idCandidate # << >> =>
              (idCandidate[1] # "-" /\ idCandidate[Len(idCandidate)] # "-")

\* Whether the table holds an entry with this identifier and source path
HasEntry(table, id, sourcePath) ==
    \E i \in 1..Len(table) : table[i].id = id /\ table[i].sourcePath = sourcePath

\* C12: two different source paths are never assigned the same identifier.
\* The target path a rewriter call returns for source path P names an entry
\* whose sourcePath is P, and no later step removes an entry or changes its
\* identifier, source path or target path, so the entry is still there when
\* bundleWorkflows reads the table.
C12_NoEntryOverwritten ==
    /\ [](\A i, j \in 1..Len(workflowsBundles) :
             i # j => workflowsBundles[i].id # workflowsBundles[j].id)
    /\ []((LastIsRewriter /\ ~lastCall.threw) =>
             /\ HasEntry(workflowsBundles, IdOfTarget(lastCall.result.value), LastSourcePath)
             /\ lastCall.result.value = TargetPathOf(IdOfTarget(lastCall.result.value)))
    /\ [][\A i \in 1..Len(workflowsBundles) :
             \E j \in 1..Len(workflowsBundles') : workflowsBundles'[j] = workflowsBundles[i]]_vars

\* Two source paths collided on the candidate wf and bundleWorkflows has
\* read the table
C12_Witness ==
    /\ pc = "wf_compile"
    /\ Len(wfList) = 2
    /\ HasEntry(workflowsBundles, <<"w","f">>, << <<"a">>, <<"w","f">> >>)
    /\ HasEntry(workflowsBundles, <<"w","f","-","1">>, << <<"b">>, <<"w","f">> >>)

\* The module requests the classifier has been called with in this build
RequestsSeen == {<<c.request, c.resolution>> : c \in classified}

\* The dependencies after the classifier has answered the requests of S, one
\* call each, in one fixed order
RECURSIVE DependenciesOf(_, _)
DependenciesOf(S, deps) ==
    IF S = {} THEN deps
    ELSE LET m == CHOOSE x \in S : TRUE
         IN DependenciesOf(S \ {m},
                extractDependencies(externalDepsPatterns, entrypointPackageRoot, deps, m[1], m[2]).deps)

NoGlobalRule == \A i \in 1..Len(externalDepsPatterns) : ~externalDepsPatterns[i].global

\* C14: the dependencies that go to the manifest depend only on the set of
\* module requests the classifier was called with, not on the order or the
\* number of the calls: they equal what one call per request, in a fixed
\* order, leaves.
C14_DependenciesIndependentOfCallOrder ==
    NoGlobalRule => packageJson.dependencies = DependenciesOf(RequestsSeen, << >>)

\* C19: within one build, two classifier calls with the same request and
\* the same resolution result return the same classification and record
\* the same (name, version).
C19_ClassificationIsStable ==
    \A a, b \in classified :
        (a.request = b.request /\ a.resolution = b.resolution) =>
            (a.result = b.result /\ a.recorded = b.recorded)

\* The last hook call was a classifier call whose resolution raised or
\* produced no usable path
ResolutionFailed ==
    LastIsClassifier /\ lastCall.resolution.kind \in {"rejects", "unusable"}

\* C17: when resolution fails the classifier does not fail; it returns
\* external-commonjs if the raw request matches a rule and inline otherwise,
\* warns exactly when the request matched and is not relative, and leaves
\* the dependencies as they were.
C17_FailedResolutionFallsBackToRawRequest ==
    /\ [](ResolutionFailed =>
             LET matches == MatchesAny(externalDepsPatterns, lastCall.arg)
             IN /\ ~lastCall.threw
                /\ lastCall.result = IF matches THEN CommonJs(lastCall.arg) ELSE Undefined
                /\ lastCall.warned = (matches /\ ~IsRelativeRequest(lastCall.arg)))
    /\ [][(nCalls' = nCalls + 1 /\ ResolutionFailed')
             => packageJson'.dependencies = packageJson.dependencies]_vars

\* The compile and write events of the current bundle() call
WorkflowEvents == SelectSeq(phases, LAMBDA e : e.ev \in {"compile", "write"})

\* C15: bundleWorkflows compiles and writes the entries one at a time in the
\* order in which they were first registered: compile of the first, write
\* of the first, compile of the second, and so on.
C15_EntriesBuiltInRegistrationOrder ==
    \A k \in 1..Len(WorkflowEvents) :
        /\ WorkflowEvents[k].ev = (IF k % 2 = 1 THEN "compile" ELSE "write")
        /\ (k + 1) \div 2 <= Len(workflowsBundles)
        /\ WorkflowEvents[k].arg = workflowsBundles[(k + 1) \div 2].id

\* The workflow compiler failed for an entry in the current bundle() call:
\* bundleWorkflows raised where a compile was due
CompileFailed ==
    \E k \in 2..Len(phases) :
        /\ phases[k].ev = "bundleWorkflows.raise"
        /\ phases[k - 1].ev \in {"bundleWorkflows", "write"}

\* The artifacts written so far by the current bundle() call
WrittenArtifacts ==
    {Resolve(TargetDirectory, TargetPathOf(phases[k].arg)) :
        k \in {i \in 1..Len(phases) : phases[i].ev = "write"}}

\* C16: when the workflow compiler fails for an entry, nothing more is
\* compiled or written, the manifest is not written, bundle() fails, and the
\* artifacts written for earlier entries stay in place.
C16_CompileFailureAbortsTheBuild ==
    /\ [](CompileFailed =>
             /\ pc = "failed"
             /\ phases[Len(phases)].ev = "bundleWorkflows.raise"
             /\ WrittenArtifacts \subseteq outputs)
    /\ [][(CompileFailed' /\ ~CompileFailed) =>
             (manifest' = manifest /\ outputs' = outputs)]_vars

\* The compiler failed for the second entry after the first was written
C16_Witness ==
    /\ CompileFailed
    /\ Len(wfList) = 2
    /\ WrittenArtifacts # {}
    /\ WrittenArtifacts \subseteq outputs
    /\ pc = "failed"

\* bundleWorker has raised in the current bundle() call
BundleWorkerRaised == HasEvent("bundleWorker.raise")

\* C18: bundleWorker fails if and only if the completion callback carried a
\* hard error or statistics with errors, or the release failed.  When it
\* fails, the lines of the statistics object (if there is one) have been
\* logged, no line is logged once bundleWorker has been left, and the
\* release precedes the failure.
C18_BundleWorkerFailsIffBuildOrReleaseFailed ==
    /\ []((BundleWorkerLeft /\ HasEvent("webpack")) =>
             /\ BundleWorkerRaised <=>
                   (callback.err \/ callback.stats = "errors" \/ closeError)
             /\ BundleWorkerRaised =>
                   /\ diagnostics = LogLevel(callback.stats)
                   /\ callback.stats # "undefined" => diagnostics # "none"
                   /\ Before("close", "bundleWorker.raise")
                   /\ compiler = "closed")
    /\ [][diagnostics' # diagnostics => ~BundleWorkerRaised']_vars

\* The build ended with statistics that have errors; its lines were logged
\* at error level, the compiler was closed and bundleWorker raised
C18_Witness ==
    /\ BundleWorkerRaised
    /\ callback.stats = "errors"
    /\ diagnostics = "error"
    /\ ~closeError
    /\ compiler = "closed"
    /\ pc = "failed"

\* The directory the walk starts from: the path itself, or its containing
\* directory when it is a file
WalkStart(p) == IF IsFile(p) THEN Dirname(p) ELSE p

\* The ancestors of p, the root and p itself included, that hold a package.json
RootsAbove(p) ==
    {SubSeq(p, 1, k) : k \in {n \in 0..Len(p) : IsFile(Append(SubSeq(p, 1, n), "package.json"))}}

\* C20: for every absolute path findPackageRoot does not raise and returns
\* the nearest ancestor directory, from the path itself (or its containing
\* directory) up to and including the root, that contains a package.json,
\* or none when there is no such directory.
C20_NearestPackageRootOrNone ==
    prPc = "returned" =>
        LET roots == RootsAbove(WalkStart(prInput))
        IN /\ ~prResult.threw
           /\ prResult.found <=> roots # {}
           /\ prResult.found =>
                /\ prResult.path \in roots
                /\ \A r \in roots : Len(r) <= Len(prResult.path)

====
